---------------------------- MODULE Spec2Model ----------------------------
(***************************************************************************)
(* Trie<Alphabet, Value> of src/trie.h as a state machine.                 *)
(*                                                                         *)
(* A Node is owned by exactly one unique_ptr slot of its parent's          *)
(* children_ array (or is the root_ member of a Trie object), so a node is *)
(* addressed by the object whose root_ owns it and the sequence of slot    *)
(* indices leading to it.  parent_ and key_ are stored fields of a node,   *)
(* exactly as in the source; they are not derived from the address.        *)
(***************************************************************************)
EXTENDS Integers, Sequences, FiniteSets, TLC

VARIABLES tries, last, halted, map

vars == <<tries, last, halted, map>>

(***************************************************************************)
(* Bounds of the model: the longest key, the nodes below the root of the   *)
(* single trie and of each of the two copied tries, the largest value.     *)
(***************************************************************************)
MaxKeyLen == 2
MaxNodes == 3
MaxCopyNodes == 2
MaxVal == 2

(***************************************************************************)
(* The instantiation: Alphabet over 'a','b' ('?' is no member), Value=int. *)
(***************************************************************************)
AlphabetSize == 2
Chars == {"a", "b", "?"}
ord(letter) == CASE letter = "a" -> 0
                 [] letter = "b" -> 1
                 [] OTHER -> -1
Slots == 0 .. (AlphabetSize - 1)
DefaultValue == 0
Values == 1 .. MaxVal

TrieIds == {"A", "B"}
Tmp == "tmp"

RECURSIVE SeqsUpTo(_, _)
SeqsUpTo(S, n) ==
    IF n = 0 THEN {<<>>}
    ELSE LET shorter == SeqsUpTo(S, n - 1)
         IN shorter \cup {Append(s, x) : s \in shorter, x \in S}

Keys == SeqsUpTo(Chars, MaxKeyLen)

(***************************************************************************)
(* Pointers.  A Node* is null or designates the node at `path` below the   *)
(* root_ of the Trie object `obj`.  A unique_ptr<Value> is <<>> (null) or  *)
(* <<v>>.                                                                  *)
(***************************************************************************)
NullPtr == [obj |-> "null", path |-> <<>>]
Ptr(o, p) == [obj |-> o, path |-> p]
NulChar == ""

IsPrefix(p, q) == Len(p) <= Len(q) /\ SubSeq(q, 1, Len(p)) = p

\* Node() : parent_(nullptr), no children, no value, key_{}
NewNode(parent) == [parent_ |-> parent, value_ |-> <<>>, key_ |-> NulChar]
EmptyTrie == [p \in {<<>>} |-> NewNode(NullPtr)]

\* A pointer that designates a node of a live object.
Live(h, ptr) == ptr.obj \in DOMAIN h /\ ptr.path \in DOMAIN h[ptr.obj]
NodeAt(h, ptr) == h[ptr.obj][ptr.path]
root(t) == Ptr(t, <<>>)

\* children_[i].get()
children_(h, ptr) ==
    [i \in Slots |-> IF Append(ptr.path, i) \in DOMAIN h[ptr.obj]
                     THEN Ptr(ptr.obj, Append(ptr.path, i))
                     ELSE NullPtr]

parent(h, ptr) == NodeAt(h, ptr).parent_
value(h, ptr) == NodeAt(h, ptr).value_
hasValue(h, ptr) == value(h, ptr) # <<>>

\* A node that never reports children.
hasChildren_never(h, ptr) == FALSE

hasChildren(h, ptr) == \E i \in Slots : children_(h, ptr)[i] # NullPtr
hasParent(h, ptr) == parent(h, ptr) # NullPtr

\* Node::child: the first slot, in array order, whose node carries `letter`.
child(h, ptr, letter) ==
    LET hits == {i \in Slots : /\ children_(h, ptr)[i] # NullPtr
                               /\ NodeAt(h, children_(h, ptr)[i]).key_ = letter}
    IN IF hits = {} THEN NullPtr
       ELSE children_(h, ptr)[CHOOSE i \in hits : \A j \in hits : i <= j]

setValue(h, ptr, v) == [h EXCEPT ![ptr.obj][ptr.path].value_ = <<v>>]
removeValue(h, ptr) == [h EXCEPT ![ptr.obj][ptr.path].value_ = <<>>]

\* Releasing the unique_ptr of a slot destroys the whole subtree below it.
Release(tree, c) == [q \in {q \in DOMAIN tree : ~IsPrefix(c, q)} |-> tree[q]]

\* A createChild that installs the new node as the only child.
createChild_alone(h, ptr, key) ==
    LET c == Append(ptr.path, ord(key))
        kept == [q \in {q \in DOMAIN h[ptr.obj] :
                            ~(IsPrefix(ptr.path, q) /\ q # ptr.path)}
                    |-> h[ptr.obj][q]]
        node == [parent_ |-> ptr, value_ |-> <<>>, key_ |-> key]
    IN [h EXCEPT ![ptr.obj] =
            [q \in DOMAIN kept \cup {c} |-> IF q = c THEN node ELSE kept[q]]]

\* Node::createChild: a fresh node in slot ord(key), replacing what was there.
createChild(h, ptr, key) ==
    LET c == Append(ptr.path, ord(key))
        kept == Release(h[ptr.obj], c)
        node == [parent_ |-> ptr, value_ |-> <<>>, key_ |-> key]
    IN [h EXCEPT ![ptr.obj] =
            [q \in DOMAIN kept \cup {c} |-> IF q = c THEN node ELSE kept[q]]]
createdChild(ptr, key) == Ptr(ptr.obj, Append(ptr.path, ord(key)))

\* Node::removeChild on a live node: the first slot holding `node` is reset.
removeChild(h, ptr, node) ==
    LET hits == {i \in Slots : children_(h, ptr)[i] = node}
        slot == CHOOSE i \in hits : \A j \in hits : i <= j
    IN IF hits = {} THEN h
       ELSE [h EXCEPT ![ptr.obj] = Release(h[ptr.obj], Append(ptr.path, slot))]

removeChildren(h, ptr) ==
    [h EXCEPT ![ptr.obj] =
        [q \in {q \in DOMAIN h[ptr.obj] :
                    ~(IsPrefix(ptr.path, q) /\ q # ptr.path)} |-> h[ptr.obj][q]]]

\* Node::getPath.  Its callers pass keys that isKeyCorrect accepted, so the
\* throw of Node::child is not met on this walk.
RECURSIVE getPathFrom(_, _, _, _)

\* A walk that stops at a missing child without marking the end.
getPathFrom_noMarker(h, node, key, path) ==
    IF key = <<>> THEN path
    ELSE LET next == child(h, node, Head(key))
         IN IF next = NullPtr THEN path
            ELSE getPathFrom(h, next, Tail(key), Append(path, next))

getPathFrom(h, node, key, path) ==
    IF key = <<>> THEN path
    ELSE LET next == child(h, node, Head(key))
         IN IF next = NullPtr THEN Append(path, NullPtr)
            ELSE getPathFrom(h, next, Tail(key), Append(path, next))
getPath(h, ptr, key) == getPathFrom(h, ptr, key, <<ptr>>)

back(path) == path[Len(path)]

isInAlphabet(letter) == ord(letter) # -1

\* A validation that looks at the first symbol only.
isKeyCorrect_firstOnly(key) == key = <<>> \/ isInAlphabet(Head(key))

isKeyCorrect(key) == \A i \in 1 .. Len(key) : isInAlphabet(key[i])

Reverse(s) == [i \in 1 .. Len(s) |-> s[Len(s) + 1 - i]]

NoExc == "none"
IncorrectKey == "Incorrect key"
KeyNotFound == "Key not found!"
LetterNotMember == "Letter is not member of alphabet"

NoUB == "none"
PopEmpty == "pop_back on an empty string"
DanglingParent == "call through a parent_ that outlived its Trie"

(***************************************************************************)
(* Trie: private helpers.                                                  *)
(***************************************************************************)

\* Trie::swap: std::swap of the two root_ nodes moves value_, key_, parent_
\* and every children_ slot.  The nodes below the roots change owner and
\* keep their fields, so a parent_ that designates a root_ still designates
\* the root_ of the object the node came from.
Moved(ptr, a, b) ==
    IF ptr.path = <<>> THEN ptr
    ELSE IF ptr.obj = a THEN Ptr(b, ptr.path)
    ELSE IF ptr.obj = b THEN Ptr(a, ptr.path)
    ELSE ptr
MovedTree(tree, a, b) ==
    [q \in DOMAIN tree |->
        IF q = <<>> THEN tree[q]
        ELSE [tree[q] EXCEPT !.parent_ = Moved(@, a, b)]]
swap(h, this, other) ==
    [h EXCEPT ![this] = MovedTree(h[other], this, other),
              ![other] = MovedTree(h[this], this, other)]

\* A traversal that forgets to drop the symbol of the node it leaves.
pop_back_forgotten(acc) == acc

\* std::string::pop_back; on an empty string the behaviour is undefined and
\* the accumulator's content is unspecified from then on.
pop_back(acc) ==
    IF acc.key = <<>> THEN [acc EXCEPT !.popEmpty = TRUE]
    ELSE [acc EXCEPT !.key = SubSeq(@, 1, Len(@) - 1)]

\* Trie::getItems, acc = [items, key, popEmpty]
RECURSIVE getItems(_, _, _)
RECURSIVE getItemsChildren(_, _, _, _)
\* A traversal that lists a node after the nodes below it.
getItems_postOrder(h, node, acc) ==
    LET key1 == IF parent(h, node) # NullPtr
                THEN Append(acc.key, NodeAt(h, node).key_)
                ELSE acc.key
        below == getItemsChildren(h, node, 0, [acc EXCEPT !.key = key1])
    IN pop_back(IF hasValue(h, node)
                THEN [below EXCEPT
                        !.items = Append(@, <<key1, value(h, node)[1]>>)]
                ELSE below)

getItems(h, node, acc) ==
    LET key1 == IF parent(h, node) # NullPtr
                THEN Append(acc.key, NodeAt(h, node).key_)
                ELSE acc.key
        items1 == IF hasValue(h, node)
                  THEN Append(acc.items, <<key1, value(h, node)[1]>>)
                  ELSE acc.items
    IN pop_back(getItemsChildren(h, node, 0,
                    [acc EXCEPT !.key = key1, !.items = items1]))
getItemsChildren(h, node, i, acc) ==
    IF i >= AlphabetSize THEN acc
    ELSE LET c == children_(h, node)[i]
         IN IF c # NullPtr
            THEN getItemsChildren(h, node, i + 1, getItems(h, c, acc))
            ELSE getItemsChildren(h, node, i + 1, acc)

\* Trie::copyTrieRec
RECURSIVE copyTrieRec(_, _, _)
RECURSIVE copyChildren(_, _, _, _)
\* A copy that builds the nodes and leaves out their values.
copyTrieRec_noValue(h, thisNode, otherNode) ==
    copyChildren(h, thisNode, otherNode, 0)

copyTrieRec(h, thisNode, otherNode) ==
    LET h1 == IF ~hasValue(h, thisNode) /\ hasValue(h, otherNode)
              THEN setValue(h, thisNode, value(h, otherNode)[1])
              ELSE h
    IN copyChildren(h1, thisNode, otherNode, 0)
copyChildren(h, thisNode, otherNode, i) ==
    IF i >= AlphabetSize THEN h
    ELSE LET c == children_(h, otherNode)[i]
         IN IF c # NullPtr
            THEN LET k == NodeAt(h, c).key_
                 IN copyChildren(
                        copyTrieRec(createChild(h, thisNode, k),
                                    createdChild(thisNode, k), c),
                        thisNode, otherNode, i + 1)
            ELSE copyChildren(h, thisNode, otherNode, i + 1)

copyTrie(h, this, otherTrie) ==
    IF this # otherTrie THEN copyTrieRec(h, root(this), root(otherTrie)) ELSE h

(***************************************************************************)
(* Trie: public operations, as functions of the heap h of live objects.    *)
(***************************************************************************)

\* Trie(const Trie&): root_ is default-initialised, then copyTrie.
copyConstruct(h, this, otherTrie) ==
    copyTrie([o \in DOMAIN h \cup {this} |->
                 IF o = this THEN EmptyTrie ELSE h[o]], this, otherTrie)

\* An assignment that takes its argument by reference and swaps with it.
operatorAssign_byReference(h, this, from) == swap(h, this, from)

\* Trie& operator=(Trie otherTrie): the parameter is a copy that lives in
\* the caller's frame; it is swapped with *this and destroyed on return.
operatorAssign(h, this, from) ==
    LET h1 == copyConstruct(h, Tmp, from)
        h2 == swap(h1, this, Tmp)
    IN [o \in DOMAIN h |-> h2[o]]

empty(h, t) == ~(hasValue(h, root(t)) \/ hasChildren(h, root(t)))

\* const Value* search(key): [exc, ret], ret = <<>> for nullptr
search(h, t, key) ==
    IF ~isKeyCorrect(key) THEN [exc |-> IncorrectKey, ret |-> <<>>]
    ELSE LET path == getPath(h, root(t), key)
         IN IF back(path) # NullPtr
            THEN [exc |-> NoExc, ret |-> value(h, back(path))]
            ELSE [exc |-> NoExc, ret |-> <<>>]

\* An at() that only tests the path, not the value.
at_pathOnly(h, t, key) ==
    IF ~isKeyCorrect(key) THEN [exc |-> IncorrectKey, ret |-> <<>>]
    ELSE LET path == getPath(h, root(t), key)
         IN IF back(path) = NullPtr
            THEN [exc |-> KeyNotFound, ret |-> <<>>]
            ELSE [exc |-> NoExc, ret |-> value(h, back(path))]

\* const Value& at(key)
at(h, t, key) ==
    IF ~isKeyCorrect(key) THEN [exc |-> IncorrectKey, ret |-> <<>>]
    ELSE LET path == getPath(h, root(t), key)
         IN IF back(path) = NullPtr \/ ~hasValue(h, back(path))
            THEN [exc |-> KeyNotFound, ret |-> <<>>]
            ELSE [exc |-> NoExc, ret |-> value(h, back(path))]

\* A remove loop that detaches a value-less node whatever hangs below it.
RECURSIVE removeLoop_ignoreChildren(_, _, _)
removeLoop_ignoreChildren(h, path, ub) ==
    IF path = <<>> THEN [heap |-> h, ub |-> ub]
    ELSE LET node == Head(path)
         IN IF hasValue(h, node) \/ ~hasParent(h, node)
            THEN [heap |-> h, ub |-> ub]
            ELSE IF Live(h, parent(h, node))
            THEN removeLoop_ignoreChildren(
                     removeChild(h, parent(h, node), node), Tail(path), ub)
            ELSE removeLoop_ignoreChildren(h, Tail(path), DanglingParent)

\* The loop of Trie::remove over the reversed path; ub records a call of
\* removeChild through a parent_ that designates no live node.
RECURSIVE removeLoop(_, _, _)
removeLoop(h, path, ub) ==
    IF path = <<>> THEN [heap |-> h, ub |-> ub]
    ELSE LET node == Head(path)
         IN IF hasValue(h, node) \/ hasChildren(h, node) \/ ~hasParent(h, node)
            THEN [heap |-> h, ub |-> ub]
            ELSE IF Live(h, parent(h, node))
            THEN removeLoop(removeChild(h, parent(h, node), node), Tail(path), ub)
            ELSE removeLoop(h, Tail(path), DanglingParent)

\* void remove(key): [heap, exc, ub]
remove(h, t, key) ==
    IF ~isKeyCorrect(key) THEN [heap |-> h, exc |-> IncorrectKey, ub |-> NoUB]
    ELSE LET path == Reverse(getPath(h, root(t), key))
         IN IF Head(path) = NullPtr
            THEN [heap |-> h, exc |-> NoExc, ub |-> NoUB]
            ELSE LET r == removeLoop(removeValue(h, Head(path)), path, NoUB)
                 IN [heap |-> r.heap, exc |-> NoExc, ub |-> r.ub]

\* The walk of Trie::insert: [heap, node, exc].  Node::child throws for a
\* letter outside the alphabet, after the nodes before it were created.
RECURSIVE insertWalk(_, _, _)
insertWalk(h, node, key) ==
    IF key = <<>> THEN [heap |-> h, node |-> node, exc |-> NoExc]
    ELSE IF ord(Head(key)) = -1
    THEN [heap |-> h, node |-> node, exc |-> LetterNotMember]
    ELSE LET tmpNode == child(h, node, Head(key))
         IN IF tmpNode = NullPtr
            THEN insertWalk(createChild(h, node, Head(key)),
                            createdChild(node, Head(key)), Tail(key))
            ELSE insertWalk(h, tmpNode, Tail(key))

\* An insert that installs the value only in a node it created itself.
insert_newOnly(h, t, key, v) ==
    IF ~isKeyCorrect(key) THEN [heap |-> h, exc |-> IncorrectKey, ret |-> FALSE]
    ELSE IF back(getPath(h, root(t), key)) # NullPtr
    THEN [heap |-> h, exc |-> NoExc, ret |-> FALSE]
    ELSE LET w == insertWalk(h, root(t), key)
         IN [heap |-> setValue(w.heap, w.node, v), exc |-> NoExc, ret |-> TRUE]

\* An insert that overwrites.
insert_overwrite(h, t, key, v) ==
    IF ~isKeyCorrect(key) THEN [heap |-> h, exc |-> IncorrectKey, ret |-> FALSE]
    ELSE LET w == insertWalk(h, root(t), key)
         IN [heap |-> setValue(w.heap, w.node, v), exc |-> NoExc,
             ret |-> ~hasValue(w.heap, w.node)]

\* bool insert(key, value): [heap, exc, ret]
insert(h, t, key, v) ==
    IF ~isKeyCorrect(key) THEN [heap |-> h, exc |-> IncorrectKey, ret |-> FALSE]
    ELSE LET w == insertWalk(h, root(t), key)
         IN IF w.exc # NoExc
            THEN [heap |-> w.heap, exc |-> w.exc, ret |-> FALSE]
            ELSE IF ~hasValue(w.heap, w.node)
            THEN [heap |-> setValue(w.heap, w.node, v), exc |-> NoExc, ret |-> TRUE]
            ELSE [heap |-> w.heap, exc |-> NoExc, ret |-> FALSE]

\* A clear that drops the children and keeps the value of the root.
clear_childrenOnly(h, t) == removeChildren(h, root(t))

clear(h, t) == removeValue(removeChildren(h, root(t)), root(t))

\* An operator[] that creates the value only when the key's node is missing
\* and otherwise hands out whatever the node holds.
operatorIndex_missingNodeOnly(h, t, key) ==
    IF ~isKeyCorrect(key) THEN [heap |-> h, exc |-> IncorrectKey, ret |-> <<>>]
    ELSE IF back(getPath(h, root(t), key)) = NullPtr
    THEN LET h1 == insert(h, t, key, DefaultValue).heap
         IN [heap |-> h1, exc |-> NoExc, ret |-> search(h1, t, key).ret]
    ELSE [heap |-> h, exc |-> NoExc, ret |-> search(h, t, key).ret]

\* Value& operator[](key): [heap, exc, ret]
operatorIndex(h, t, key) ==
    IF ~isKeyCorrect(key) THEN [heap |-> h, exc |-> IncorrectKey, ret |-> <<>>]
    ELSE IF search(h, t, key).ret = <<>>
    THEN LET h1 == insert(h, t, key, DefaultValue).heap
             r == at(h1, t, key)
         IN [heap |-> h1, exc |-> r.exc, ret |-> r.ret]
    ELSE [heap |-> h, exc |-> NoExc, ret |-> search(h, t, key).ret]

\* ItemList items(): [items, key, popEmpty]
items(h, t) ==
    getItems(h, root(t), [items |-> <<>>, key |-> <<>>, popEmpty |-> FALSE])

(***************************************************************************)
(* The state machine: two Trie objects A and B and the calls made on them. *)
(* `last` is the call that produced the current state and what it gave     *)
(* back; `halted` is set when undefined behaviour ended the program; `map` *)
(* is the reference the tries are compared with.                           *)
(***************************************************************************)
Call(op, t, key, v, exc, ret, u, before) ==
    [op |-> op, obj |-> t, key |-> key, value |-> v, exc |-> exc, ret |-> ret,
     ub |-> u, before |-> before]

NodeCount(h, t) == Cardinality(DOMAIN h[t]) - 1

\* No call is in progress and no result is pending.
Idle == Call("idle", "", <<>>, 0, NoExc, <<>>, NoUB, <<>>)

(***************************************************************************)
(* The reference the trie is compared with: per object, the key-to-value   *)
(* map that the calls made so far describe (insert never overwrites).      *)
(***************************************************************************)
EmptyMap == [k \in {} |-> 0]
Held(m, key) == IF key \in DOMAIN m THEN <<m[key]>> ELSE <<>>
\* Every symbol of the key has an ord in [0, size).
InAlphabet(key) == \A i \in 1 .. Len(key) : ord(key[i]) \in Slots
MapInsert(m, key, v) ==
    IF ~InAlphabet(key) \/ key \in DOMAIN m THEN m
    ELSE [k \in DOMAIN m \cup {key} |-> IF k = key THEN v ELSE m[k]]
MapRemove(m, key) == [k \in DOMAIN m \ {key} |-> m[k]]

Init ==
    /\ tries = [t \in TrieIds |-> EmptyTrie]
    /\ last = Idle
    /\ halted = FALSE
    /\ map = [t \in TrieIds |-> EmptyMap]

Ready == ~halted /\ last = Idle

Insert(t, key, v, cap) ==
    LET r == insert(tries, t, key, v)
    IN /\ Ready
       /\ NodeCount(r.heap, t) <= cap
       /\ tries' = r.heap
       /\ last' = Call("insert", t, key, v, r.exc, r.ret, NoUB, Held(map[t], key))
       /\ map' = [map EXCEPT ![t] = MapInsert(@, key, v)]
       /\ UNCHANGED halted

\* A call through a dangling parent_ either finds no slot equal to the node
\* in the dead storage (the trie is left as it is) or ends the program.
Remove(t, key) ==
    LET r == remove(tries, t, key)
    IN /\ Ready
       /\ tries' = r.heap
       /\ last' = Call("remove", t, key, 0, r.exc, <<>>, r.ub, Held(map[t], key))
       /\ map' = [map EXCEPT ![t] = MapRemove(@, key)]
       /\ halted' \in (IF r.ub = NoUB THEN {FALSE} ELSE {FALSE, TRUE})

Search(t, key) ==
    LET r == search(tries, t, key)
    IN /\ Ready
       /\ last' = Call("search", t, key, 0, r.exc, r.ret, NoUB, Held(map[t], key))
       /\ UNCHANGED <<tries, halted, map>>

At(t, key) ==
    LET r == at(tries, t, key)
    IN /\ Ready
       /\ last' = Call("at", t, key, 0, r.exc, r.ret, NoUB, Held(map[t], key))
       /\ UNCHANGED <<tries, halted, map>>

Index(t, key, cap) ==
    LET r == operatorIndex(tries, t, key)
    IN /\ Ready
       /\ NodeCount(r.heap, t) <= cap
       /\ tries' = r.heap
       /\ last' = Call("operator[]", t, key, 0, r.exc, r.ret, NoUB,
                       Held(map[t], key))
       /\ map' = [map EXCEPT ![t] = MapInsert(@, key, DefaultValue)]
       /\ UNCHANGED halted

Clear(t) ==
    /\ Ready
    /\ tries' = clear(tries, t)
    /\ last' = Call("clear", t, <<>>, 0, NoExc, <<>>, NoUB, <<>>)
    /\ map' = [map EXCEPT ![t] = EmptyMap]
    /\ UNCHANGED halted

\* pop_back on the empty accumulator either goes unnoticed (the accumulator
\* is not read again) or ends the program (a checked standard library).
Items(t) ==
    LET r == items(tries, t)
    IN /\ Ready
       /\ last' = Call("items", t, <<>>, 0, NoExc, r.items,
                       IF r.popEmpty THEN PopEmpty ELSE NoUB, <<>>)
       /\ halted' \in (IF r.popEmpty THEN {FALSE, TRUE} ELSE {FALSE})
       /\ UNCHANGED <<tries, map>>

\* Trie t(u): a new object takes the place of the one named t.
CopyConstruct(t, u) ==
    /\ Ready
    /\ t # u
    /\ tries' = copyConstruct(tries, t, u)
    /\ last' = Call("Trie(const Trie&)", t, <<>>, 0, NoExc, <<u>>, NoUB, <<>>)
    /\ map' = [map EXCEPT ![t] = map[u]]
    /\ UNCHANGED halted

\* t = u
Assign(t, u) ==
    /\ Ready
    /\ tries' = operatorAssign(tries, t, u)
    /\ last' = Call("operator=", t, <<>>, 0, NoExc, <<u>>, NoUB, <<>>)
    /\ map' = [map EXCEPT ![t] = map[u]]
    /\ UNCHANGED halted

\* The caller is done with the result of the call and goes on.
Discard ==
    /\ ~halted
    /\ last # Idle
    /\ last' = Idle
    /\ UNCHANGED <<tries, halted, map>>

\* The calls on one trie that starts empty and is never copied.
Next ==
    \/ \E key \in Keys, v \in Values : Insert("A", key, v, MaxNodes)
    \/ \E key \in Keys : Remove("A", key)
    \/ \E key \in Keys : Search("A", key)
    \/ \E key \in Keys : At("A", key)
    \/ \E key \in Keys : Index("A", key, MaxNodes)
    \/ Clear("A")
    \/ Items("A")
    \/ Discard

Spec == Init /\ [][Next]_vars

\* Two tries, every mutating operation and the copies between them, over
\* the keys "", "a", "b", "ab".
CopyKeys == {<<>>, <<"a">>, <<"b">>, <<"a", "b">>}
CopyValues == {1}
NextCopy ==
    \/ \E t \in TrieIds, key \in CopyKeys, v \in CopyValues :
            Insert(t, key, v, MaxCopyNodes)
    \/ \E t \in TrieIds, key \in CopyKeys : Remove(t, key)
    \/ \E t \in TrieIds, key \in CopyKeys : Index(t, key, MaxCopyNodes)
    \/ \E t \in TrieIds : Clear(t)
    \/ \E t \in TrieIds, u \in TrieIds : CopyConstruct(t, u)
    \/ \E t \in TrieIds, u \in TrieIds : Assign(t, u)
    \/ Discard

SpecCopy == Init /\ [][NextCopy]_vars

\* One trie and the three keys "go", "gone", "goner" with the values 1, 2, 3.
\* Each level of that chain uses one symbol, so the keys are spelled over
\* the two-symbol alphabet with g, n, r as 'a' and o, e as 'b'.
Go == <<"a", "b">>
Gone == <<"a", "b", "a", "b">>
Goner == <<"a", "b", "a", "b", "a">>
ChainItems == {<<Go, 1>>, <<Gone, 2>>, <<Goner, 3>>}
ChainKeys == {it[1] : it \in ChainItems}
NextChain ==
    \/ \E it \in ChainItems : Insert("A", it[1], it[2], Len(Goner))
    \/ \E key \in ChainKeys : Remove("A", key)
    \/ \E key \in ChainKeys : Search("A", key)
    \/ \E key \in ChainKeys : Index("A", key, Len(Goner))
    \/ Items("A")
    \/ Discard

SpecChain == Init /\ [][NextChain]_vars

(***************************************************************************)
(* What the claims are stated with.                                        *)
(***************************************************************************)
Front(q) == SubSeq(q, 1, Len(q) - 1)
Last(q) == q[Len(q)]

\* The slots a key leads through, and the value its node holds (<<>>: none).
SlotPath(key) == [i \in 1 .. Len(key) |-> ord(key[i])]
HasNode(tree, key) == SlotPath(key) \in DOMAIN tree
ValueAt(tree, key) ==
    IF HasNode(tree, key) THEN tree[SlotPath(key)].value_ ELSE <<>>
Prefixes(key) == {SubSeq(key, 1, n) : n \in 0 .. Len(key)}
KeyOps == {"insert", "search", "at", "remove", "operator[]"}

\* C1: what items() returns lists exactly the keys that hold a value, each once, spelled
\* as the symbols from the root to its node, with the value of the insert
\* that succeeded for the key since its last removal.
C1_ItemsExact ==
    (last.op = "items" /\ ~halted) =>
        LET l == last.ret
            m == map[last.obj]
            tree == tries[last.obj]
        IN /\ \A i \in 1 .. Len(l) :
                /\ l[i][1] \in DOMAIN m
                /\ m[l[i][1]] = l[i][2]
                /\ ValueAt(tree, l[i][1]) = <<l[i][2]>>
           /\ \A k \in DOMAIN m : \E i \in 1 .. Len(l) : l[i][1] = k
           /\ \A i, j \in 1 .. Len(l) : l[i][1] = l[j][1] => i = j

\* items() on a trie that holds the empty key and a two-symbol key below a
\* node without a value, after a removal.
C1_Witness ==
    /\ last.op = "items" /\ ~halted
    /\ Len(last.ret) >= 2
    /\ <<>> \in DOMAIN map["A"]
    /\ \E k \in DOMAIN map["A"] :
          Len(k) = 2 /\ ValueAt(tries["A"], Front(k)) = <<>>

\* C2: every node in slot i of a node P has parent_ = P and ord(key_) = i,
\* and a root has no parent.
C2_BackReferences ==
    \A t \in TrieIds :
        /\ tries[t][<<>>].parent_ = NullPtr
        /\ \A q \in DOMAIN tries[t] \ {<<>>} :
              /\ tries[t][q].parent_ = Ptr(t, Front(q))
              /\ ord(tries[t][q].key_) = Last(q)

\* C3: every node below a root holds a value or has a child.
C3_NoDeadLeaf ==
    \A t \in TrieIds : \A q \in DOMAIN tries[t] \ {<<>>} :
        hasValue(tries, Ptr(t, q)) \/ hasChildren(tries, Ptr(t, q))

\* C4: a call on one trie, a copy into it included, leaves the nodes, the
\* values and the items() of the other trie as they were, and no node of
\* one trie refers to a node of the other.
NoSharing(h) ==
    \A t \in TrieIds : \A q \in DOMAIN h[t] :
        h[t][q].parent_.obj \notin TrieIds \ {t}
C4_Independent ==
    [][/\ NoSharing(tries')
       /\ \A u \in TrieIds :
            u # last'.obj =>
                /\ tries'[u] = tries[u]
                /\ items(tries', u).items = items(tries, u).items]_vars

\* B was assigned from, still holds what the copy gave it below "a", and a
\* key that A goes on holding was just removed from B.
C4_Witness ==
    /\ last.op = "remove" /\ last.obj = "B" /\ last.before # <<>>
    /\ \E q \in DOMAIN tries["B"] : tries["B"][q].parent_ = root(Tmp)
    /\ ValueAt(tries["A"], last.key) # <<>>
    /\ ValueAt(tries["B"], last.key) = <<>>

\* C5: insert(k, v) of a key that holds no value returns true, and
\* search(k) then yields v.
C5_InsertThenSearch ==
    [][(/\ last'.op = "insert"
        /\ InAlphabet(last'.key)
        /\ ValueAt(tries[last'.obj], last'.key) = <<>>)
       => /\ last'.exc = NoExc
          /\ last'.ret = TRUE
          /\ search(tries', last'.obj, last'.key)
                = [exc |-> NoExc, ret |-> <<last'.value>>]]_vars

\* A successful insert into a node that was there without a value.
C5_Witness ==
    /\ last.op = "insert" /\ last.ret = TRUE /\ last.before = <<>>
    /\ hasChildren(tries, Ptr("A", SlotPath(last.key)))
    /\ ValueAt(tries["A"], last.key) = <<last.value>>

\* C6: insert(k, v2) of a key that holds v1 returns false and changes
\* nothing; search(k) is still v1.
C6_NoOverwrite ==
    [][(/\ last'.op = "insert"
        /\ InAlphabet(last'.key)
        /\ ValueAt(tries[last'.obj], last'.key) # <<>>)
       => /\ last'.exc = NoExc
          /\ last'.ret = FALSE
          /\ search(tries', last'.obj, last'.key).ret
                = ValueAt(tries[last'.obj], last'.key)
          /\ tries' = tries]_vars

\* An insert of another value than the one the key holds was turned down.
C6_Witness ==
    /\ last.op = "insert" /\ last.exc = NoExc /\ last.ret = FALSE
    /\ last.before # <<>> /\ last.before # <<last.value>>
    /\ ValueAt(tries["A"], last.key) = last.before

\* C7: remove(k) of a valid key that holds no value raises nothing and
\* changes nothing, and a second remove(k) changes nothing after any first.
C7_RemoveAbsent ==
    [][(last'.op = "remove" /\ InAlphabet(last'.key))
       => /\ remove(tries', last'.obj, last'.key).heap = tries'
          /\ ValueAt(tries[last'.obj], last'.key) = <<>>
                => /\ last'.exc = NoExc
                   /\ last'.ub = NoUB
                   /\ tries' = tries
                   /\ items(tries', last'.obj).items
                        = items(tries, last'.obj).items]_vars

\* C8: a key with a symbol outside the alphabet makes insert, search, at,
\* remove and operator[] raise "Incorrect key" and leaves the trie as it was.
C8_AlphabetGuard ==
    [][(last'.op \in KeyOps /\ ~InAlphabet(last'.key))
       => /\ last'.exc = IncorrectKey
          /\ tries' = tries]_vars

\* insert was refused for "a?" while the trie had no node for "a".
C8_Witness ==
    /\ last.op = "insert" /\ last.key = <<"a", "?">>
    /\ last.exc = IncorrectKey
    /\ ~HasNode(tries["A"], <<"a">>)

\* C9: for a valid key, at raises "Key not found!" exactly when the key
\* holds no value and else returns the value; search returns null in those
\* cases and else the value; neither changes the trie.
C9_AtAndSearch ==
    [][(last'.op \in {"at", "search"} /\ InAlphabet(last'.key))
       => LET held == ValueAt(tries[last'.obj], last'.key)
          IN /\ tries' = tries
             /\ last'.op = "at" =>
                    IF held = <<>> THEN last'.exc = KeyNotFound
                    ELSE last'.exc = NoExc /\ last'.ret = held
             /\ last'.op = "search" =>
                    last'.exc = NoExc /\ last'.ret = held]_vars

\* at was called for a key whose node is there without a value.
C9_Witness ==
    /\ last.op = "at" /\ last.exc = KeyNotFound
    /\ HasNode(tries["A"], last.key)
    /\ ValueAt(tries["A"], last.key) = <<>>

\* C10: operator[] of a valid key that holds no value creates the missing
\* nodes of its path, installs Value{} and returns it, and search then
\* returns it; for a key that holds a value it returns that value and
\* changes nothing.
C10_DefaultAccess ==
    [][(last'.op = "operator[]" /\ InAlphabet(last'.key))
       => LET held == ValueAt(tries[last'.obj], last'.key)
          IN /\ last'.exc = NoExc
             /\ IF held = <<>>
                THEN /\ last'.ret = <<DefaultValue>>
                     /\ last'.ret = ValueAt(tries'[last'.obj], last'.key)
                     /\ search(tries', last'.obj, last'.key).ret
                            = <<DefaultValue>>
                     /\ \A k \in Prefixes(last'.key) :
                            HasNode(tries'[last'.obj], k)
                ELSE /\ last'.ret = held
                     /\ tries' = tries]_vars

\* operator[] created both nodes of a two-symbol key and gave back Value{}.
C10_Witness ==
    /\ last.op = "operator[]" /\ last.before = <<>>
    /\ last.ret = <<DefaultValue>>
    /\ Len(last.key) = 2
    /\ NodeCount(tries, "A") = 2

\* C11: in every state reached from the empty trie by insert, remove,
\* operator[] and clear, empty() is true exactly when no key holds a value
\* (items() is empty), and it is true after clear().
C11_EmptyIffNoKey ==
    /\ empty(tries, "A") <=> (items(tries, "A").items = <<>>)
    /\ empty(tries, "A") <=> (DOMAIN map["A"] = {})
    /\ last.op = "clear" => empty(tries, "A")

\* The last key, one of two symbols, was removed and the trie is empty again.
C11_Witness ==
    /\ last.op = "remove" /\ last.before # <<>> /\ Len(last.key) = 2
    /\ empty(tries, "A")

\* The pairs items() lists, and whether a key longer than `key` holds a
\* value below the node of `key`.
ItemSet(h, t) == LET l == items(h, t).items IN {l[i] : i \in 1 .. Len(l)}
ExtendedByValued(tree, key) ==
    \E q \in DOMAIN tree :
        /\ IsPrefix(SlotPath(key), q) /\ q # SlotPath(key)
        /\ tree[q].value_ # <<>>
RemovesPrefixKey ==
    /\ last'.op = "remove"
    /\ InAlphabet(last'.key)
    /\ ValueAt(tries[last'.obj], last'.key) # <<>>
    /\ ExtendedByValued(tries[last'.obj], last'.key)

\* C12 as stated: removing a valued key k that is a proper prefix of another
\* valued key drops exactly k from items(), and afterwards the node for k
\* is gone while every other node remains.
C12_NodeOfPrefixKeyGone ==
    [][RemovesPrefixKey
       => LET o == last'.obj
              k == last'.key
          IN /\ ItemSet(tries', o)
                    = ItemSet(tries, o) \ {<<k, ValueAt(tries[o], k)[1]>>}
             /\ DOMAIN tries'[o] = DOMAIN tries[o] \ {SlotPath(k)}]_vars

\* C12, amended: removing a valued key k that is a proper prefix of another
\* valued key drops exactly k from items() and keeps every other pair; the
\* node for k stays, without a value, and every other node is unchanged.
C12_NodeOfPrefixKeyStays ==
    [][RemovesPrefixKey
       => LET o == last'.obj
              k == last'.key
          IN /\ last'.exc = NoExc /\ last'.ub = NoUB
             /\ ItemSet(tries', o)
                    = ItemSet(tries, o) \ {<<k, ValueAt(tries[o], k)[1]>>}
             /\ DOMAIN tries'[o] = DOMAIN tries[o]
             /\ ValueAt(tries'[o], k) = <<>>
             /\ \A q \in DOMAIN tries[o] \ {SlotPath(k)} :
                    tries'[o][q] = tries[o][q]]_vars

\* "gone" was removed while "go" and "goner" hold 1 and 3.
C12_Witness ==
    /\ last.op = "remove" /\ last.key = Gone /\ last.before = <<2>>
    /\ ItemSet(tries, "A") = {<<Go, 1>>, <<Goner, 3>>}
    /\ HasNode(tries["A"], Gone)
    /\ ValueAt(tries["A"], Gone) = <<>>

\* C13: right after B(A) or B = A, self-assignment included, B has a node
\* exactly where A had one, with the same symbol and the same value, so
\* B.items() equals A.items() and B.empty() equals A.empty().
SameShapeAndValues(treeA, treeB) ==
    /\ DOMAIN treeA = DOMAIN treeB
    /\ \A q \in DOMAIN treeA :
          /\ treeA[q].value_ = treeB[q].value_
          /\ treeA[q].key_ = treeB[q].key_
C13_CopyIsomorphic ==
    [][last'.op \in {"Trie(const Trie&)", "operator="}
       => LET b == last'.obj
              a == last'.ret[1]
          IN /\ SameShapeAndValues(tries[a], tries'[b])
             /\ items(tries', b).items = items(tries, a).items
             /\ empty(tries', b) = empty(tries, a)
             /\ SameShapeAndValues(tries[a], tries'[a])]_vars

\* B was assigned from A, which holds "ab" below a node without a value.
C13_Witness ==
    /\ last.op = "operator=" /\ last.obj = "B" /\ last.ret = <<"A">>
    /\ NodeCount(tries, "B") = 2
    /\ ValueAt(tries["B"], <<"a", "b">>) # <<>>
    /\ ValueAt(tries["B"], <<"a">>) = <<>>

\* C14: remove(k) of a key that holds a value clears the value and detaches
\* exactly the nodes on k's path that are not the root and are a prefix of
\* no key still holding a value; every other node and value is unchanged.
C14_RemovePrunes ==
    [][(/\ last'.op = "remove"
        /\ InAlphabet(last'.key)
        /\ ValueAt(tries[last'.obj], last'.key) # <<>>)
       => LET tree == tries[last'.obj]
              after == tries'[last'.obj]
              p == SlotPath(last'.key)
              StillNeeded(q) ==
                  \E r \in DOMAIN tree :
                      IsPrefix(q, r) /\ r # p /\ tree[r].value_ # <<>>
              pruned == {q \in DOMAIN tree :
                            IsPrefix(q, p) /\ q # <<>> /\ ~StillNeeded(q)}
          IN /\ DOMAIN after = DOMAIN tree \ pruned
             /\ ValueAt(after, last'.key) = <<>>
             /\ \A q \in DOMAIN after :
                    after[q] = IF q = p THEN [tree[q] EXCEPT !.value_ = <<>>]
                               ELSE tree[q]]_vars

\* C15: insert(k, v) creates one node for each prefix of k that had none
\* and nothing else: every node that was there keeps its slot, parent,
\* children and value (the node of k takes v when it held none), and
\* search(j) gives the same result as before for every key j # k.
C15_InsertFrame ==
    [][(last'.op = "insert" /\ InAlphabet(last'.key))
       => LET o == last'.obj
              k == last'.key
              tree == tries[o]
              after == tries'[o]
              p == SlotPath(k)
          IN /\ DOMAIN after = DOMAIN tree \cup {SlotPath(j) : j \in Prefixes(k)}
             /\ \A q \in DOMAIN tree :
                    after[q] = IF q = p /\ tree[q].value_ = <<>>
                               THEN [tree[q] EXCEPT !.value_ = <<last'.value>>]
                               ELSE tree[q]
             /\ \A j \in Prefixes(k) :
                    SlotPath(j) \notin DOMAIN tree =>
                        /\ after[SlotPath(j)].parent_ = Ptr(o, SlotPath(Front(j)))
                        /\ after[SlotPath(j)].key_ = Last(j)
                        /\ after[SlotPath(j)].value_
                              = IF j = k THEN <<last'.value>> ELSE <<>>
             /\ \A j \in Keys \ {k} :
                    search(tries', o, j) = search(tries, o, j)]_vars

\* insert("aa", v) created the nodes of "a" and "aa" next to the key "b".
C15_Witness ==
    /\ last.op = "insert" /\ last.ret = TRUE /\ last.key = <<"a", "a">>
    /\ DOMAIN tries["A"] = {<<>>, <<0>>, <<0, 0>>, <<1>>}
    /\ ValueAt(tries["A"], <<"a">>) = <<>>
    /\ ValueAt(tries["A"], <<"b">>) # <<>>

\* C16: items() lists the pairs in depth-first pre-order over the slot index:
\* a key stands before every key that extends it, and two keys that first
\* differ at some position stand in increasing ord of the differing symbol.
FirstDifference(k1, k2) ==
    CHOOSE d \in 1 .. Len(k1) :
        /\ k1[d] # k2[d]
        /\ \A e \in 1 .. (d - 1) : k1[e] = k2[e]
ListedBefore(k1, k2) ==
    IF IsPrefix(k1, k2) THEN k1 # k2
    ELSE /\ ~IsPrefix(k2, k1)
         /\ ord(k1[FirstDifference(k1, k2)]) < ord(k2[FirstDifference(k1, k2)])
C16_PreOrder ==
    (last.op = "items" /\ ~halted) =>
        \A i, j \in 1 .. Len(last.ret) :
            i < j => ListedBefore(last.ret[i][1], last.ret[j][1])

\* items() returned the keys "a", "ab", "b" in this order.
C16_Witness ==
    /\ last.op = "items" /\ ~halted
    /\ [i \in 1 .. Len(last.ret) |-> last.ret[i][1]]
            = <<(<<"a">>), <<"a", "b">>, (<<"b">>)>>

\* The tree that a key-to-value map determines: a node for each prefix of
\* each key of the map, the root included, and the values of the map.
SymbolOf(i) == CHOOSE c \in Chars : ord(c) = i
KeyOf(q) == [i \in 1 .. Len(q) |-> SymbolOf(q[i])]
TreeOf(m, t) ==
    LET prefixes == UNION {Prefixes(k) : k \in DOMAIN m}
        nodes == {<<>>} \cup {SlotPath(p) : p \in prefixes}
    IN [q \in nodes |->
          [parent_ |-> IF q = <<>> THEN NullPtr ELSE Ptr(t, Front(q)),
           value_ |-> Held(m, KeyOf(q)),
           key_ |-> IF q = <<>> THEN NulChar ELSE SymbolOf(Last(q))]]

\* C17: in every state reached from the empty trie by insert, remove,
\* operator[] and clear, the nodes are exactly the prefixes of the keys that
\* hold a value (the root being the empty prefix), and the tree is the one
\* the current key-to-value map determines, whatever the history.
C17_NodesArePrefixes ==
    /\ DOMAIN tries["A"] =
          {<<>>} \cup {q \in DOMAIN tries["A"] :
                          \E r \in DOMAIN tries["A"] :
                              IsPrefix(q, r) /\ tries["A"][r].value_ # <<>>}
    /\ tries["A"] = TreeOf(map["A"], "A")

\* A two-symbol key was removed, its branch went with it, and the key "b"
\* and its node are what is left.
C17_Witness ==
    /\ last.op = "remove" /\ last.before # <<>> /\ Len(last.key) = 2
    /\ DOMAIN map["A"] = {<<"b">>}
    /\ DOMAIN tries["A"] = {<<>>, <<1>>}

\* C18: during items() the key accumulator is never popped while empty,
\* the call for the root and the empty trie included.
C18_PopBalanced ==
    last.op = "items" => last.ub = NoUB

\* getPath called on the node at q with `key`, and whether the node that
\* `key` leads to from there exists.
ValidKeys == {k \in Keys : InAlphabet(k)}
PathFrom(q, key) == getPath(tries, Ptr("A", q), key)
Target(q, key) == q \o SlotPath(key)

\* C19 as stated: getPath(key) starts with the node itself; when the key's
\* node does not exist the result is shorter than key.length()+1 and ends
\* in the null marker, and when it exists the result has length
\* key.length()+1 and ends in that node.
C19_LengthTellsMissing ==
    \A q \in DOMAIN tries["A"] : \A key \in ValidKeys :
        LET path == PathFrom(q, key)
        IN /\ path[1] = Ptr("A", q)
           /\ IF Target(q, key) \in DOMAIN tries["A"]
              THEN /\ Len(path) = Len(key) + 1
                   /\ back(path) = Ptr("A", Target(q, key))
              ELSE /\ Len(path) < Len(key) + 1
                   /\ back(path) = NullPtr

\* C19, amended: getPath(key) starts with the node itself; when the key's
\* node does not exist the result is the nodes of the prefixes that exist
\* followed by the null marker, so its length is at most key.length()+1 and
\* equals it when the path breaks at the last symbol; when the node exists
\* the result has length key.length()+1 and ends in that node.  The last
\* element, not the length, tells the two cases apart.
C19_LastElementTellsMissing ==
    \A q \in DOMAIN tries["A"] : \A key \in ValidKeys :
        LET path == PathFrom(q, key)
            found == {n \in 0 .. Len(key) :
                        Target(q, SubSeq(key, 1, n)) \in DOMAIN tries["A"]}
        IN /\ path[1] = Ptr("A", q)
           /\ \A n \in found : path[n + 1] = Ptr("A", Target(q, SubSeq(key, 1, n)))
           /\ IF Len(key) \in found
              THEN Len(path) = Len(key) + 1 /\ back(path) # NullPtr
              ELSE /\ Len(path) = Cardinality(found) + 1
                   /\ Len(path) <= Len(key) + 1
                   /\ back(path) = NullPtr
                   /\ (Len(path) = Len(key) + 1) <=> (Len(key) - 1 \in found)

\* search("ab") walked a trie that has the node of "a" and no node of "ab":
\* the path has three elements and ends in the null marker.
C19_Witness ==
    /\ last.op = "search" /\ last.key = <<"a", "b">> /\ last.ret = <<>>
    /\ HasNode(tries["A"], <<"a">>) /\ ~HasNode(tries["A"], <<"a", "b">>)
    /\ Len(PathFrom(<<>>, last.key)) = Len(last.key) + 1
    /\ back(PathFrom(<<>>, last.key)) = NullPtr

=============================================================================
